---- MODULE Spec2Model ----
(***************************************************************************)
(* Model of asr_rank.py: a command-line tool that asks the ASRank API for  *)
(* the AS records of five organizations, keeps the best ranked record of   *)
(* each, sorts the collected triples and prints them as a table.           *)
(*                                                                         *)
(* Spec      the whole run of main()                                       *)
(* SelSpec   get_highest_rank_asn applied to one bounded API response      *)
(* SortSpec  sorting_asns and beautify applied to one bounded results list *)
(***************************************************************************)
EXTENDS Integers, Sequences, FiniteSets

VARIABLES
    pc,              \* where the run is: "parse", "loop", "get", "print",
                     \* "done" (status 0), "crashed" (status 1), "usage" (status 2);
                     \* "call" and "called" in SelSpec
    args,            \* the parsed command line
    i,               \* position of the for loop in ORGANIZATIONS (1-based)
    requests,        \* GETs issued so far, per organization
    response,        \* the response to the GET of the current iteration
    exc,             \* the exception the latest lookup raised, "none" if it returned
    ret,             \* SelSpec: what get_highest_rank_asn returned or raised
    results,         \* main's results list
    sorted_results,  \* main's sorted_results
    output           \* the lines printed so far

vars == <<pc, args, i, requests, response, exc, ret, results, sorted_results, output>>

(* ------------------------------ bounds -------------------------------- *)

\* longest edges list of an API response
MaxEdges == 2
\* SelSpec and SortSpec: ranks are 1..MaxRank
MaxRank == 2
\* SelSpec and SortSpec: cone sizes are 0..MaxCone
MaxCone == 1
\* SortSpec: longest results list
MaxLen == 4
\* Spec: ranks the API serves during a run of main are 1..RunRank
RunRank == 1
\* Spec: cone sizes the API serves during a run of main are 0..RunCone
RunCone == 0

(* ----------------------------- constants ------------------------------ *)

ORGANIZATIONS == <<"Zenlayer", "Equinix", "Linode", "Ionos", "PhoenixNap">>

OrgIndex == 1..Len(ORGANIZATIONS)

\* Python's None in a slot that otherwise holds a rank or a cone size
None == -1

\* a JSON object's key: its value is {v}, or {} when the key is not there
Absent == {}

Value(opt) == CHOOSE v \in opt : TRUE

(* --------------------------- API responses ---------------------------- *)

\* The elements of data.asns.edges. rank stands for node.rank and cone for
\* node.cone.numberAsns. An element is an edge without 'node' (neither
\* field), or one whose node has a rank and may lack the cone size.
Edges(maxRank, maxCone) ==
    {[rank |-> Absent, cone |-> Absent]}
    \cup [rank : {{r} : r \in 1..maxRank},
          cone : {Absent} \cup {{c} : c \in 0..maxCone}]

SeqsUpTo(S, n) == UNION {[1..k -> S] : k \in 0..n}

\* What session.get(...) hands back: a body that is not JSON, a JSON body
\* without data / asns / edges, or a JSON body with an edges list.
Responses(maxRank, maxCone) ==
    {[kind |-> "badjson", edges |-> <<>>], [kind |-> "nokeys", edges |-> <<>>]}
    \cup {[kind |-> "json", edges |-> e] :
             e \in SeqsUpTo(Edges(maxRank, maxCone), MaxEdges)}

\* the responses the API may give during a run of main, and those
\* get_highest_rank_asn is applied to in SelSpec
RunResponses == Responses(RunRank, RunCone)
SelResponses == Responses(MaxRank, MaxCone)

NoResponse == [kind |-> "none", edges |-> <<>>]

(* ----------------------- get_highest_rank_asn ------------------------- *)

\* variant of MinRank: min(..., default=None), no ValueError on no records
RECURSIVE MinRankDefault(_, _, _)
MinRankDefault(edges, k, best) ==
    IF k > Len(edges)
    THEN [raised |-> "none", value |-> best]
    ELSE IF edges[k].rank = Absent
         THEN [raised |-> "KeyError", value |-> None]
         ELSE LET r == Value(edges[k].rank)
              IN  MinRankDefault(edges, k + 1,
                                 IF best = None \/ r < best THEN r ELSE best)

\* variant of MinRank: the rank of the first record
RECURSIVE MinRankFirst(_, _, _)
MinRankFirst(edges, k, best) ==
    IF k > Len(edges)
    THEN IF best = None
         THEN [raised |-> "ValueError", value |-> None]
         ELSE [raised |-> "none", value |-> best]
    ELSE IF edges[k].rank = Absent
         THEN [raised |-> "KeyError", value |-> None]
         ELSE LET r == Value(edges[k].rank)
              IN  MinRankFirst(edges, k + 1, IF best = None THEN r ELSE best)

RECURSIVE MinRank(_, _, _)
\* min(node['node']['rank'] for node in edges): the generator is consumed
\* left to right; a record without rank raises KeyError when it is reached,
\* a generator that yielded nothing makes min raise ValueError
MinRank(edges, k, best) ==
    IF k > Len(edges)
    THEN IF best = None
         THEN [raised |-> "ValueError", value |-> None]
         ELSE [raised |-> "none", value |-> best]
    ELSE IF edges[k].rank = Absent
         THEN [raised |-> "KeyError", value |-> None]
         ELSE LET r == Value(edges[k].rank)
              IN  MinRank(edges, k + 1, IF best = None \/ r < best THEN r ELSE best)

\* variant of ScanCone: the loop breaks at the first record of the highest rank
RECURSIVE ScanConeBreak(_, _, _, _)
ScanConeBreak(edges, k, highest_rank, conesize) ==
    IF k > Len(edges)
    THEN [raised |-> "none", value |-> conesize]
    ELSE IF Value(edges[k].rank) = highest_rank
         THEN IF edges[k].cone = Absent
              THEN [raised |-> "KeyError", value |-> None]
              ELSE [raised |-> "none", value |-> Value(edges[k].cone)]
         ELSE ScanConeBreak(edges, k + 1, highest_rank, conesize)

RECURSIVE ScanCone(_, _, _, _)
\* the for loop of lines 63-65: every record of the highest rank overwrites
\* conesize; one without a cone size raises KeyError
ScanCone(edges, k, highest_rank, conesize) ==
    IF k > Len(edges)
    THEN [raised |-> "none", value |-> conesize]
    ELSE IF Value(edges[k].rank) = highest_rank
         THEN IF edges[k].cone = Absent
              THEN [raised |-> "KeyError", value |-> None]
              ELSE ScanCone(edges, k + 1, highest_rank, Value(edges[k].cone))
         ELSE ScanCone(edges, k + 1, highest_rank, conesize)

Raise(e) == [raised |-> e, rank |-> None, cone |-> None]

\* lines 60-66, once session.get has returned resp. response.json() raises a
\* JSONDecodeError, which is a ValueError; a missing key raises KeyError.
get_highest_rank_asn(resp) ==
    IF resp.kind = "badjson" THEN Raise("ValueError")
    ELSE IF resp.kind = "nokeys" THEN Raise("KeyError")
    ELSE LET m == MinRank(resp.edges, 1, None)
         IN  IF m.raised # "none" THEN Raise(m.raised)
             ELSE LET s == ScanCone(resp.edges, 1, m.value, None)
                  IN  IF s.raised # "none" THEN Raise(s.raised)
                      ELSE [raised |-> "none", rank |-> m.value, cone |-> s.value]

(* --------------------------- sorting_asns ----------------------------- *)

RECURSIVE Reverse(_)
Reverse(s) == IF s = <<>> THEN <<>> ELSE Append(Reverse(Tail(s)), Head(s))

\* x[index] of a Python tuple (0-based)
Item(x, index) == x[index + 1]

\* variant of Insort: x goes before the elements whose key equals its key
RECURSIVE InsortLeft(_, _, _)
InsortLeft(s, x, index) ==
    IF s = <<>> THEN <<x>>
    ELSE IF Item(x, index) <= Item(Head(s), index)
         THEN <<x>> \o s
         ELSE <<Head(s)>> \o InsortLeft(Tail(s), x, index)

RECURSIVE Insort(_, _, _)
\* x goes after every element whose key is <= its key
Insort(s, x, index) ==
    IF s = <<>> THEN <<x>>
    ELSE IF Item(x, index) < Item(Head(s), index)
         THEN <<x>> \o s
         ELSE <<Head(s)>> \o Insort(Tail(s), x, index)

RECURSIVE StableSort(_, _)
StableSort(s, index) ==
    IF s = <<>> THEN <<>>
    ELSE Insort(StableSort(SubSeq(s, 1, Len(s) - 1), index), s[Len(s)], index)

\* variant of sorted: with reverse, the ascending result is reversed
sortedThenReversed(s, index, reverse) ==
    IF reverse THEN Reverse(StableSort(s, index)) ELSE StableSort(s, index)

\* sorted(results, key=lambda x: x[index], reverse=flag): a stable sort.
\* With reverse the list is reversed, sorted and reversed again, so equal
\* keys keep their input order in both directions.
sorted(s, index, reverse) ==
    IF reverse THEN Reverse(StableSort(Reverse(s), index))
    ELSE StableSort(s, index)

\* variant of sorting_asns: the two indexes exchanged
sorting_asns_other_index(res, metric, order) ==
    LET order_flag == IF order = "descending" THEN TRUE ELSE FALSE
        index == IF metric = "asrank" THEN 2 ELSE 1
    IN  sorted(res, index, order_flag)

sorting_asns(res, metric, order) ==
    LET order_flag == IF order = "descending" THEN TRUE ELSE FALSE
        index == IF metric = "asrank" THEN 1 ELSE 2
    IN  sorted(res, index, order_flag)

(* ------------------------------ output -------------------------------- *)

Line(what, name, rank, cone) == [line |-> what, name |-> name, rank |-> rank, cone |-> cone]

\* "the following {organization} does not have information!"
Diagnostic(org) == Line("diagnostic", org, None, None)
Header == Line("header", "", None, None)
Rule == Line("rule", "", None, None)
Row(result) == Line("row", result[1], result[2], result[3])
\* argparse's usage message and the interpreter's traceback
Usage == Line("usage", "", None, None)
Traceback(e) == Line("traceback", e, None, None)

RECURSIVE Rows(_)
Rows(res) == IF res = <<>> THEN <<>> ELSE <<Row(Head(res))>> \o Rows(Tail(res))

\* what beautify prints
beautify(res) == <<Header, Rule>> \o Rows(res)

(* ------------------------------- main --------------------------------- *)

NoArgs == [sort_by |-> "", order |-> ""]
NoRet == Raise("none")

\* values the two options are given on the command line; "" is the option
\* left out
SortByArgv == {"", "asrank", "cone_size", "rank"}
OrderArgv == {"", "ascending", "descending", "up"}

Init ==
    /\ pc = "parse"
    /\ args = NoArgs
    /\ i = 1
    /\ requests = [o \in OrgIndex |-> 0]
    /\ response = NoResponse
    /\ exc = "none"
    /\ ret = NoRet
    /\ results = <<>>
    /\ sorted_results = <<>>
    /\ output = <<>>

\* parser.parse_args(): an option left out takes its default, a value that
\* is not among the choices ends the process with a usage message
ParseArgs ==
    /\ pc = "parse"
    /\ \E s \in SortByArgv, o \in OrderArgv :
         IF s \in {"", "asrank", "cone_size"} /\ o \in {"", "ascending", "descending"}
         THEN /\ args' = [sort_by |-> IF s = "" THEN "asrank" ELSE s,
                          order |-> IF o = "" THEN "ascending" ELSE o]
              /\ pc' = "loop"
              /\ UNCHANGED output
         ELSE /\ pc' = "usage"
              /\ output' = Append(output, Usage)
              /\ UNCHANGED args
    /\ UNCHANGED <<i, requests, response, exc, ret, results, sorted_results>>

\* the for statement takes the next organization and get_highest_rank_asn
\* issues its GET; the request is under way while pc = "get"
IssueGet ==
    /\ pc = "loop"
    /\ i <= Len(ORGANIZATIONS)
    /\ requests' = [requests EXCEPT ![i] = @ + 1]
    /\ response' = NoResponse
    /\ pc' = "get"
    /\ UNCHANGED <<args, i, exc, ret, results, sorted_results, output>>

\* session.get raises (no route, connection reset, ...): the
\* requests.RequestException is no ValueError, so it passes the except
\* clause of line 111 and ends main with a traceback
NetworkFail ==
    /\ pc = "get"
    /\ exc' = "RequestException"
    /\ output' = Append(output, Traceback("RequestException"))
    /\ pc' = "crashed"
    /\ UNCHANGED <<args, i, requests, response, ret, results, sorted_results>>

\* session.get returns a response, lines 60-66 return a pair and line 110
\* appends the triple
LookupReturns ==
    /\ pc = "get"
    /\ \E resp \in RunResponses :
         LET out == get_highest_rank_asn(resp)
         IN  /\ out.raised = "none"
             /\ response' = resp
             /\ results' = Append(results, <<ORGANIZATIONS[i], out.rank, out.cone>>)
    /\ exc' = "none"
    /\ i' = i + 1
    /\ pc' = "loop"
    /\ UNCHANGED <<args, requests, ret, sorted_results, output>>

\* variant of LookupValueError: the organization is asked for again (up to
\* three requests)
LookupValueErrorRetry ==
    /\ pc = "get"
    /\ requests[i] < 3
    /\ \E resp \in RunResponses :
         /\ get_highest_rank_asn(resp).raised = "ValueError"
         /\ response' = resp
    /\ exc' = "ValueError"
    /\ output' = Append(output, Diagnostic(ORGANIZATIONS[i]))
    /\ pc' = "loop"
    /\ UNCHANGED <<args, i, requests, ret, results, sorted_results>>

\* variant of LookupValueError: a triple without values is appended for the
\* skipped organization
LookupValueErrorPlaceholder ==
    /\ pc = "get"
    /\ \E resp \in RunResponses :
         /\ get_highest_rank_asn(resp).raised = "ValueError"
         /\ response' = resp
    /\ exc' = "ValueError"
    /\ output' = Append(output, Diagnostic(ORGANIZATIONS[i]))
    /\ results' = Append(results, <<ORGANIZATIONS[i], None, None>>)
    /\ i' = i + 1
    /\ pc' = "loop"
    /\ UNCHANGED <<args, requests, ret, sorted_results>>

\* session.get returns a response, lines 60-66 raise a ValueError and lines
\* 111-112 handle it
LookupValueError ==
    /\ pc = "get"
    /\ \E resp \in RunResponses :
         /\ get_highest_rank_asn(resp).raised = "ValueError"
         /\ response' = resp
    /\ exc' = "ValueError"
    /\ output' = Append(output, Diagnostic(ORGANIZATIONS[i]))
    /\ i' = i + 1
    /\ pc' = "loop"
    /\ UNCHANGED <<args, requests, ret, results, sorted_results>>

\* session.get returns a response and lines 60-66 raise something else: it
\* passes the except clause and ends main with a traceback
LookupUncaught ==
    /\ pc = "get"
    /\ \E resp \in RunResponses :
         LET out == get_highest_rank_asn(resp)
         IN  /\ out.raised \notin {"none", "ValueError"}
             /\ response' = resp
             /\ exc' = out.raised
             /\ output' = Append(output, Traceback(out.raised))
    /\ pc' = "crashed"
    /\ UNCHANGED <<args, i, requests, ret, results, sorted_results>>

\* the for statement finds the list exhausted, and line 114
Sort ==
    /\ pc = "loop"
    /\ i > Len(ORGANIZATIONS)
    /\ response' = NoResponse
    /\ sorted_results' = sorting_asns(results, args.sort_by, args.order)
    /\ pc' = "print"
    /\ UNCHANGED <<args, i, requests, exc, ret, results, output>>

\* line 115, and main returns
Beautify ==
    /\ pc = "print"
    /\ output' = output \o beautify(sorted_results)
    /\ pc' = "done"
    /\ UNCHANGED <<args, i, requests, response, exc, ret, results, sorted_results>>

Next ==
    \/ ParseArgs
    \/ IssueGet
    \/ NetworkFail
    \/ LookupReturns
    \/ LookupValueError
    \/ LookupUncaught
    \/ Sort
    \/ Beautify

Spec == Init /\ [][Next]_vars

(* ------------- SelSpec: get_highest_rank_asn on one response ---------- *)

SelInit ==
    /\ pc = "call"
    /\ response \in SelResponses
    /\ args = NoArgs
    /\ i \in OrgIndex
    /\ requests = [o \in OrgIndex |-> IF o <= i THEN 1 ELSE 0]
    /\ exc = "none"
    /\ ret = NoRet
    /\ results = <<>>
    /\ sorted_results = <<>>
    /\ output = <<>>

\* the function is applied to the response and its outcome kept
Call ==
    /\ pc = "call"
    /\ ret' = get_highest_rank_asn(response)
    /\ exc' = ret'.raised
    /\ pc' = "called"
    /\ UNCHANGED <<args, i, requests, response, results, sorted_results, output>>

SelNext == Call

SelSpec == SelInit /\ [][SelNext]_vars

(* ------- SortSpec: sorting_asns and beautify on one results list ------ *)

RankCone == (1..MaxRank) \X (0..MaxCone)

RECURSIVE ResultsOf(_, _, _)
\* the results list main builds when the organizations in S succeed with
\* the pairs f gives them
ResultsOf(k, S, f) ==
    IF k > Len(ORGANIZATIONS) THEN <<>>
    ELSE (IF k \in S THEN <<<<ORGANIZATIONS[k], f[k][1], f[k][2]>>>> ELSE <<>>)
         \o ResultsOf(k + 1, S, f)

RECURSIVE DiagnosticsOf(_, _)
DiagnosticsOf(k, S) ==
    IF k > Len(ORGANIZATIONS) THEN <<>>
    ELSE (IF k \in S THEN <<>> ELSE <<Diagnostic(ORGANIZATIONS[k])>>)
         \o DiagnosticsOf(k + 1, S)

\* the state of main when the loop has ended
SortInit ==
    /\ pc = "loop"
    /\ i = Len(ORGANIZATIONS) + 1
    /\ args \in [sort_by : {"asrank", "cone_size"}, order : {"ascending", "descending"}]
    /\ requests = [o \in OrgIndex |-> 1]
    /\ response = NoResponse
    /\ exc = "none"
    /\ ret = NoRet
    /\ \E S \in SUBSET OrgIndex :
         /\ Cardinality(S) <= MaxLen
         /\ \E f \in [S -> RankCone] :
              /\ results = ResultsOf(1, S, f)
              /\ output = DiagnosticsOf(1, S)
    /\ sorted_results = <<>>

SortNext == Sort \/ Beautify

SortSpec == SortInit /\ [][SortNext]_vars

(* ============================== claims ================================ *)

Last(s) == s[Len(s)]

\* how many triples of results, and how many diagnostic lines, name org
TripleCount(org) == Cardinality({k \in 1..Len(results) : results[k][1] = org})
DiagCount(org) == Cardinality({k \in 1..Len(output) : output[k] = Diagnostic(org)})

\* position of a name in ORGANIZATIONS
OrgPos(org) == CHOOSE o \in OrgIndex : ORGANIZATIONS[o] = org

\* a lookup has just ended: it returned or was skipped (the loop is at its
\* next iteration boundary) or it ended the run
Finished == (pc = "loop" /\ i > 1) \/ pc = "crashed"
\* the organization of that lookup
LastOrg == IF pc = "crashed" THEN i ELSE i - 1

EmptyEdges == [kind |-> "json", edges |-> <<>>]

WellFormed(e) == e.rank # Absent /\ e.cone # Absent

(* ---- C1 ---- *)

\* the failures C1 names: the network call failed, the body is not JSON, or
\* one of the keys is absent
FetchFailed ==
    \/ exc = "RequestException"
    \/ response.kind \in {"badjson", "nokeys"}
    \/ \E k \in 1..Len(response.edges) : ~WellFormed(response.edges[k])

\* C1: whenever the lookup of an organization fails because the network call
\* fails, the body is not valid JSON or a key is absent, main catches the
\* failure: the loop is at its next iteration, the last line printed is the
\* diagnostic naming that organization and results holds no triple for it;
\* the run is not aborted.
C1_FetchFailureIsCaught ==
    (Finished /\ FetchFailed) =>
        /\ pc = "loop"
        /\ output # <<>>
        /\ Last(output) = Diagnostic(ORGANIZATIONS[LastOrg])
        /\ TripleCount(ORGANIZATIONS[LastOrg]) = 0

(* ---- C2 ---- *)

\* C2: when the API returns an empty edges list for an organization, the
\* lookup raises ValueError and main prints exactly one diagnostic line
\* naming the organization, appends nothing for it and is at the next
\* iteration of the loop.
C2_EmptyEdgesSkipped ==
    (Finished /\ response = EmptyEdges) =>
        /\ pc = "loop"
        /\ exc = "ValueError"
        /\ output # <<>>
        /\ Last(output) = Diagnostic(ORGANIZATIONS[i - 1])
        /\ DiagCount(ORGANIZATIONS[i - 1]) = 1
        /\ TripleCount(ORGANIZATIONS[i - 1]) = 0
        /\ (i <= Len(ORGANIZATIONS) => requests[i] = 0)

\* the second organization returned no edges after the first one succeeded,
\* and the loop goes on to the third
C2_Witness ==
    /\ pc = "loop"
    /\ i = 3
    /\ response = EmptyEdges
    /\ exc = "ValueError"
    /\ Len(results) = 1
    /\ output = <<Diagnostic("Equinix")>>

(* ---- C3 ---- *)

\* the triples of results name distinct organizations already processed, in
\* ORGANIZATIONS order
ResultsInListOrder ==
    /\ Len(results) <= Len(ORGANIZATIONS)
    /\ \A k \in 1..Len(results) :
         /\ \E o \in OrgIndex : ORGANIZATIONS[o] = results[k][1]
         /\ OrgPos(results[k][1]) < i
    /\ \A a, b \in 1..Len(results) :
         a < b => OrgPos(results[a][1]) < OrgPos(results[b][1])

HasValidRecord(resp) ==
    /\ resp.kind = "json"
    /\ \E k \in 1..Len(resp.edges) : WellFormed(resp.edges[k])

\* the responses on which the lookup returns a pair: a JSON body with a
\* non-empty edges list in which every record has a rank and every record
\* of the lowest rank has a cone size
LookupSucceeds(resp) ==
    /\ resp.kind = "json"
    /\ resp.edges # <<>>
    /\ \A k \in 1..Len(resp.edges) : resp.edges[k].rank # Absent
    /\ \A k \in 1..Len(resp.edges) :
         (\A j \in 1..Len(resp.edges) :
             Value(resp.edges[k].rank) <= Value(resp.edges[j].rank))
         => resp.edges[k].cone # Absent

Returned == pc = "called" /\ ret.raised = "none"

\* C4: on a non-empty list of AS records the function returns a pair, and
\* whenever it returns a pair its rank is the minimum rank among the
\* records: the rank of one of them and no greater than any.
C4_RankIsMinimum ==
    /\ (/\ pc = "called"
        /\ response.kind = "json"
        /\ response.edges # <<>>
        /\ \A k \in 1..Len(response.edges) : WellFormed(response.edges[k]))
       => ret.raised = "none"
    /\ Returned =>
        /\ \E k \in 1..Len(response.edges) : Value(response.edges[k].rank) = ret.rank
        /\ \A k \in 1..Len(response.edges) : ret.rank <= Value(response.edges[k].rank)

\* two records, the lower rank second
C4_Witness ==
    /\ Returned
    /\ Len(response.edges) = 2
    /\ response.edges[1].rank = {2}
    /\ response.edges[2].rank = {1}
    /\ ret.rank = 1

(* ---- C5 ---- *)

\* C5: whenever the function returns a pair, its cone size is not None and
\* is the cone size of the last record, in response order, whose rank is the
\* returned rank.
C5_ConeOfLastMinimum ==
    Returned =>
        /\ ret.cone # None
        /\ \E k \in 1..Len(response.edges) :
             /\ Value(response.edges[k].rank) = ret.rank
             /\ \A j \in (k + 1)..Len(response.edges) :
                  Value(response.edges[j].rank) # ret.rank
             /\ response.edges[k].cone = {ret.cone}

\* two records of the same lowest rank with different cone sizes: the second
\* one's is returned
C5_Witness ==
    /\ Returned
    /\ Len(response.edges) = 2
    /\ response.edges[1].rank = response.edges[2].rank
    /\ response.edges[1].cone = {1}
    /\ response.edges[2].cone = {0}
    /\ ret.cone = 0

(* ---- C6 ---- *)

Sorted == pc \in {"print", "done"}

\* the field sorting_asns was asked to sort by
Field(t) == IF args.sort_by = "asrank" THEN t[2] ELSE t[3]

Occurrences(s, x) == Cardinality({k \in 1..Len(s) : s[k] = x})

\* C6: sorted_results is a reordering of results (same length, every triple
\* as often as in results) in which the chosen field is non-decreasing when
\* the order is ascending and non-increasing when it is descending.
C6_SortedReordering ==
    Sorted =>
        /\ Len(sorted_results) = Len(results)
        /\ \A k \in 1..Len(results) :
             Occurrences(sorted_results, results[k]) = Occurrences(results, results[k])
        /\ \A k \in 1..(Len(sorted_results) - 1) :
             IF args.order = "ascending"
             THEN Field(sorted_results[k]) <= Field(sorted_results[k + 1])
             ELSE Field(sorted_results[k]) >= Field(sorted_results[k + 1])

\* three triples sorted by cone size, descending, that were not in that order
C6_Witness ==
    /\ Sorted
    /\ args = [sort_by |-> "cone_size", order |-> "descending"]
    /\ Len(results) = 3
    /\ results[1][3] < results[2][3]
    /\ results[1][2] < results[2][2]
    /\ sorted_results # results
    /\ sorted_results[1][3] > sorted_results[3][3]

(* ---- C7 ---- *)

Pos(s, x) == CHOOSE k \in 1..Len(s) : s[k] = x

\* C7: two triples of results with equal values of the chosen field are in
\* sorted_results in the order they have in results, whatever the direction.
C7_Stable ==
    Sorted =>
        \A a, b \in 1..Len(results) :
            (a < b /\ Field(results[a]) = Field(results[b]))
            => Pos(sorted_results, results[a]) < Pos(sorted_results, results[b])

\* a descending sort that moved a triple in front of two triples with equal
\* ranks, which kept their order
C7_Witness ==
    /\ Sorted
    /\ args = [sort_by |-> "asrank", order |-> "descending"]
    /\ Len(results) = 3
    /\ results[1][2] = results[2][2]
    /\ results[3][2] > results[1][2]
    /\ sorted_results = <<results[3], results[1], results[2]>>

(* ---- C8 ---- *)

\* C8: sorting sorted_results again by the same metric and order gives
\* sorted_results, element by element.
C8_Idempotent ==
    Sorted => sorting_asns(sorted_results, args.sort_by, args.order) = sorted_results

\* a list with a tie that the sort had to reorder
C8_Witness ==
    /\ Sorted
    /\ Len(results) = 3
    /\ sorted_results # results
    /\ \E a, b \in 1..3 : a < b /\ Field(results[a]) = Field(results[b])
    /\ sorting_asns(sorted_results, args.sort_by, args.order) = sorted_results

(* ---- C9 ---- *)

\* C9: a run that has ended (after the command line was accepted) without
\* one successful lookup ended normally, and printed one diagnostic line per
\* organization followed by the header and the rule, with no rows.
C9_AllFailingStillPrintsTable ==
    (pc \in {"done", "crashed"} /\ results = <<>>) =>
        /\ pc = "done"
        /\ output = DiagnosticsOf(1, {}) \o <<Header, Rule>>

(* ---- C10 ---- *)

\* C10: organizations are processed one at a time in ORGANIZATIONS order. No
\* organization is ever sent more than one GET; those before the loop
\* position have been sent theirs and each has its triple or its diagnostic
\* line, those after it have been sent none and have neither; the one at the
\* loop position has been sent its GET exactly while its lookup is under way
\* (or has ended the run) and has neither yet. Sorting and printing have
\* started only if every organization has been processed.
C10_Sequential ==
    /\ \A o \in OrgIndex :
         /\ requests[o] <= 1
         /\ o < i => /\ requests[o] = 1
                     /\ TripleCount(ORGANIZATIONS[o]) + DiagCount(ORGANIZATIONS[o]) = 1
         /\ o > i => requests[o] = 0
         /\ o >= i => TripleCount(ORGANIZATIONS[o]) + DiagCount(ORGANIZATIONS[o]) = 0
    /\ i <= Len(ORGANIZATIONS) =>
         (requests[i] = 1 <=> pc \in {"get", "crashed"})
    /\ (\/ pc \in {"print", "done"}
        \/ sorted_results # <<>>
        \/ \E k \in 1..Len(output) : output[k] \in {Header, Rule})
       => /\ i = Len(ORGANIZATIONS) + 1
          /\ \A o \in OrgIndex : requests[o] = 1

\* the third organization's request is under way; the first was skipped and
\* the second has its triple; the last two have not been asked for
C10_Witness ==
    /\ pc = "get"
    /\ i = 3
    /\ requests = [o \in OrgIndex |-> IF o <= 3 THEN 1 ELSE 0]
    /\ output = <<Diagnostic("Zenlayer")>>
    /\ Len(results) = 1
    /\ results[1][1] = "Equinix"

====
